---- MODULE Spec2Model ----
(***************************************************************************)
(* Offline mutation queue (services/local_queue.py) and the batch          *)
(* reconciler (services/sync_service.py, process_sync_once) with its       *)
(* last-write-wins conflict check, as a state machine.                     *)
(*                                                                         *)
(* Encodings.  A timestamp is an integer: NoTs (0) is None / a missing or  *)
(* empty ISO string, BadTs (-1) is a string dateutil cannot parse, and     *)
(* 1..MaxTs are instants.  A payload field that is absent from the dict    *)
(* is Missing, a JSON null is Null; both are strings that no real value    *)
(* equals.  A queue item in memory carries oid, the identity of its dict   *)
(* object (get_batch copies the list, not the dicts); the file stores the  *)
(* item without it.                                                        *)
(***************************************************************************)
EXTENDS Integers, Sequences, FiniteSets, TLC

\* ---------------------------------------------------------------- bounds
MaxTs == 2       \* instants are 1..MaxTs
MaxLen == 2      \* items in the queue file when the process starts
MaxRetry == 1    \* faults injected into one item

\* ------------------------------------------------------------ value sets
Threads == {"t1", "t2"}
TaskIds == {"A"}
NoTs == 0
BadTs == 0 - 1
Missing == "<missing>"
Null == "<null>"
KnownOps == {"create", "update", "delete"}
Ops == KnownOps \cup {"purge"}
Instants == 1..MaxTs

\* payload dicts the clients enqueue: a full one, one with an empty title and
\* nothing else, and the one task_service.delete_task builds (updated_at only)
FullData(ts) ==
    [title |-> "x", description |-> "d", completed |-> "T", updated_at |-> ts]
BlankData(ts) ==
    [title |-> "", description |-> Missing, completed |-> Missing, updated_at |-> ts]
BareData(ts) ==
    [title |-> Missing, description |-> Missing, completed |-> Missing, updated_at |-> ts]


\* ----------------------------------------------------------------- state
VARIABLES
    file,       \* the queue file: [kind, items]
    tmp,        \* the sibling temp file _save writes: [kind, items]
    queue,      \* LocalQueue.queue, the in-memory list
    lock,       \* LocalQueue._lock: Free or the thread that holds it
    clock,      \* the last reading of the wall clock
    db,         \* the committed tasks table: task id -> row
    limit,      \* BATCH_SIZE, read from the environment at import
    pc,         \* per thread: where it is
    ret,        \* per thread: the caller _save returns to
    arg,        \* per thread: the item(s) passed to add / remove_items / increment_retry
    batch,      \* per run: the list get_batch returned
    idx,        \* per run: position of the for loop in batch
    processed,  \* per run
    failed,     \* per run
    conflicts,  \* per run
    sess,       \* per run: the Session's identity map
    pend,       \* per run: objects db.add()ed and not yet flushed
    result,     \* per thread: the summary the run returned
    outcome,    \* history: how the run's db.commit() ended
    q0,         \* history: the queue when the run peeked
    db0,        \* history: the table when the run peeked
    call        \* per thread: the task-service call it is serving

vars == <<file, tmp, queue, lock, clock, db, limit, pc, ret, arg, batch, idx,
          processed, failed, conflicts, sess, pend, result, outcome, q0, db0, call>>
qvars == <<file, tmp, queue, lock>>
runvars == <<batch, idx, processed, failed, conflicts, sess, pend, result, outcome,
             q0, db0>>

Free == "free"

\* ------------------------------------------------------- sequences, helpers
Min(a, b) == IF a < b THEN a ELSE b

RECURSIVE SelectSeqBy(_, _)
\* the subsequence of s at the positions in keep, order kept
SelectSeqBy(s, keep) ==
    IF s = <<>> THEN <<>>
    ELSE LET n == Len(s)
             front == SelectSeqBy(SubSeq(s, 1, n - 1), keep)
         IN IF n \in keep THEN Append(front, s[n]) ELSE front

Range(s) == {s[i] : i \in DOMAIN s}

\* ------------------------------------------------------------- the records
Absent ==
    [exists |-> FALSE, title |-> "", description |-> Null, completed |-> FALSE,
     updated_at |-> NoTs, is_deleted |-> FALSE, sync_status |-> ""]

NoSess ==
    [i \in TaskIds |-> [loaded |-> FALSE, dirty |-> FALSE, orig |-> Absent, cur |-> Absent]]

\* no task-service call in progress
NoCall == [fn |-> "none", module |-> "none", task_id |-> "", offline |-> FALSE, size |-> 0]

NoResult ==
    [returned |-> FALSE, synced_items |-> 0, failed_items |-> 0, conflicts |-> <<>>,
     error |-> FALSE, remaining |-> 0]

\* ------------------------------------------------- LocalQueue: file format
\* json.dump(self.queue): the dict objects' identity is not in the file
DumpItem(it) ==
    [task_id |-> it.task_id, operation |-> it.operation, data |-> it.data,
     retry_count |-> it.retry_count, queued_at |-> it.queued_at]
Dump(q) == [i \in DOMAIN q |-> DumpItem(q[i])]

\* json.load: every item is a new dict object
LoadItem(f, o) ==
    [oid |-> o, task_id |-> f.task_id, operation |-> f.operation, data |-> f.data,
     retry_count |-> f.retry_count, queued_at |-> f.queued_at]

\* a _load without the isinstance check: a parsed value that is not a list
\* becomes the queue's content
LoadUnchecked(f) ==
    IF f.kind = "list" THEN [i \in DOMAIN f.items |-> LoadItem(f.items[i], i)]
    ELSE IF f.kind = "notalist"
    THEN <<[oid |-> 1, task_id |-> "A", operation |-> "purge", data |-> BareData(1),
            retry_count |-> 0, queued_at |-> 1]>>
    ELSE <<>>

\* LocalQueue._load: a missing file, a file that cannot be read or parsed, and a
\* parsed value that is not a list all leave the queue empty
Load(f) ==
    IF f.kind = "list" THEN [i \in DOMAIN f.items |-> LoadItem(f.items[i], i)] ELSE <<>>

\* the key remove_items compares
Key(it) == <<it.task_id, it.operation, it.data.updated_at, it.queued_at>>

\* a remove_items by position: drops as many entries from the head as it is
\* given items
RemoveItemsByCount(q, items) == SubSeq(q, Min(Len(items), Len(q)) + 1, Len(q))

\* remove_items: keep the queue entries whose key is not the key of any of items
RemoveItems(q, items) ==
    SelectSeqBy(q, {i \in DOMAIN q : \A j \in DOMAIN items : Key(q[i]) # Key(items[j])})

\* increment_retry: the first entry that IS the item (object identity) is bumped
IncrementRetry(q, o) ==
    [i \in DOMAIN q |->
        IF q[i].oid = o THEN [q[i] EXCEPT !.retry_count = @ + 1] ELSE q[i]]

\* a get_batch that returns the newest items: self.queue[-limit:]
GetBatchNewest(q, n) == SubSeq(q, Len(q) - Min(n, Len(q)) + 1, Len(q))

\* a get_batch that passes over the items whose retry_count has reached the
\* ceiling
GetBatchUnderCeiling(q, n) ==
    LET live == SelectSeqBy(q, {i \in DOMAIN q : q[i].retry_count < 1})
    IN SubSeq(live, 1, Min(n, Len(live)))

\* get_batch: list(self.queue[:limit])
GetBatch(q, n) == SubSeq(q, 1, Min(n, Len(q)))

\* an object identity no live dict has
Oids ==
    {queue[i].oid : i \in DOMAIN queue}
    \cup UNION {{batch[t][i].oid : i \in DOMAIN batch[t]} : t \in Threads}
    \cup UNION {{arg[t][i].oid : i \in DOMAIN arg[t]} : t \in Threads}
FreshOid == CHOOSE o \in 1..(Cardinality(Oids) + 1) : o \notin Oids

\* --------------------------------------------- the reconciler: one item
\* _iso_to_dt(data.get("updated_at")) or _iso_to_dt(queued_at).  The payload's
\* timestamps are UTC (spec, QueueItem), so the instant survives the store's
\* naive DateTime column.  BadTs: parse_iso raises.
ClientUpdatedAt(it) ==
    IF it.data.updated_at = BadTs THEN BadTs
    ELSE IF it.data.updated_at # NoTs THEN it.data.updated_at
    ELSE it.queued_at

\* db.query(Task).filter(Task.id == task_id).first() with autoflush off: the
\* SELECT sees committed rows only; a row already in the identity map comes
\* back as the object the session holds, pending changes included.
Existing(se, dbv, id) ==
    IF ~dbv[id].exists THEN Absent
    ELSE IF se[id].loaded THEN se[id].cur
    ELSE dbv[id]

Touch(se, dbv, id) ==
    IF dbv[id].exists /\ ~se[id].loaded
    THEN [se EXCEPT ![id] = [loaded |-> TRUE, dirty |-> FALSE, orig |-> dbv[id],
                             cur |-> dbv[id]]]
    ELSE se

\* data.get("title", "") or "Untitled"
TitleOrUntitled(v) == IF v \in {Missing, Null, ""} THEN "Untitled" ELSE v
\* data.get(k, old)
GetOr(v, old) == IF v = Missing THEN old ELSE v
\* data.get("description")
GetOrNone(v) == IF v = Missing THEN Null ELSE v
\* bool(data.get("completed", old))
BoolOr(v, old) == IF v = Missing THEN old ELSE v = "T"

\* client_updated_at or datetime.now(timezone.utc)
TsOrNow(cts, now) == IF cts # NoTs THEN cts ELSE now

\* Task(id=..., title=..., ...) of the create branch and of update's else branch
NewTask(data, cts, now) ==
    [exists |-> TRUE,
     title |-> TitleOrUntitled(data.title),
     description |-> GetOrNone(data.description),
     completed |-> BoolOr(data.completed, FALSE),
     updated_at |-> TsOrNow(cts, now),
     is_deleted |-> FALSE,
     sync_status |-> "synced"]

\* an in-place update that brings a soft-deleted row back
UpdateTaskRevive(ex, data, cts, now) ==
    [ex EXCEPT !.title = GetOr(data.title, ex.title),
               !.description = GetOr(data.description, ex.description),
               !.completed = BoolOr(data.completed, ex.completed),
               !.updated_at = TsOrNow(cts, now),
               !.is_deleted = FALSE,
               !.sync_status = "synced"]

\* the in-place update of an existing row (create on an existing row, update)
UpdateTask(ex, data, cts, now) ==
    [ex EXCEPT !.title = GetOr(data.title, ex.title),
               !.description = GetOr(data.description, ex.description),
               !.completed = BoolOr(data.completed, ex.completed),
               !.updated_at = TsOrNow(cts, now),
               !.sync_status = "synced"]

\* a delete that removes the row
DeleteTaskHard(ex, cts, now) == Absent

\* the soft delete of an existing row
DeleteTask(ex, cts, now) ==
    [ex EXCEPT !.is_deleted = TRUE, !.updated_at = TsOrNow(cts, now),
               !.sync_status = "synced"]

\* no timestamp check at all: the client's write is always applied
IsConflictNever(ex, cts) == FALSE

\* the comparison with >= in place of >: a tie is a conflict
IsConflictOrTie(ex, cts) ==
    ex.exists /\ ex.updated_at # NoTs /\ cts # NoTs /\ ex.updated_at >= cts

\* the comparison the other way round: the older server row wins
IsConflictReversed(ex, cts) ==
    ex.exists /\ ex.updated_at # NoTs /\ cts # NoTs /\ ex.updated_at < cts

\* existing_updated and client_updated_at and existing_updated > client_updated_at
IsConflict(ex, cts) ==
    ex.exists /\ ex.updated_at # NoTs /\ cts # NoTs /\ ex.updated_at > cts

ConflictEntry(it, ex, cts) ==
    [task_id |-> it.task_id, operation |-> it.operation,
     server_updated_at |-> ex.updated_at, client_updated_at |-> cts]

\* the run's locals
RunState(se, pe, pr, fa, co) ==
    [sess |-> se, pend |-> pe, processed |-> pr, failed |-> fa, conflicts |-> co,
     raised |-> FALSE]

\* One pass of the for loop's body over item it.  st: the run's locals; dbv: the
\* committed table the SELECT reads; fault: an exception is raised inside the try
\* block; now: the clock.  raised: the exception left the loop (the timestamp is
\* parsed outside the try block).
ApplyItem(st, dbv, it, fault, now) ==
    LET id == it.task_id
        cts == ClientUpdatedAt(it)
        ex == Existing(st.sess, dbv, id)
        se == Touch(st.sess, dbv, id)
        done == Append(st.processed, it)
    IN  IF cts = BadTs THEN [st EXCEPT !.raised = TRUE]
        ELSE IF fault
        THEN [st EXCEPT !.sess = se,
                        !.failed = Append(@, [item |-> [it EXCEPT !.retry_count = @ + 1],
                                              error |-> "exception"])]
        ELSE IF IsConflict(ex, cts)
        THEN [st EXCEPT !.sess = se,
                        !.conflicts = Append(@, ConflictEntry(it, ex, cts)),
                        !.processed = done]
        ELSE IF it.operation \in {"create", "update"}
        THEN IF ex.exists
             THEN [st EXCEPT !.sess = [se EXCEPT ![id].cur = UpdateTask(ex, it.data, cts, now),
                                                 ![id].dirty = TRUE],
                             !.processed = done]
             ELSE [st EXCEPT !.pend = Append(@, [id |-> id, row |-> NewTask(it.data, cts, now)]),
                             !.processed = done]
        ELSE IF it.operation = "delete"
        THEN IF ex.exists
             THEN [st EXCEPT !.sess = [se EXCEPT ![id].cur = DeleteTask(ex, cts, now),
                                                 ![id].dirty = TRUE],
                             !.processed = done]
             ELSE [st EXCEPT !.processed = done]
        ELSE [st EXCEPT !.sess = se,
                        !.failed = Append(@, [item |-> it, error |-> "unknown operation"])]

\* ------------------------------------------------------------ db.commit()
\* The flush INSERTs the pending objects and UPDATEs the dirty ones.  It raises
\* when two pending objects share a primary key, when a pending object's key is
\* already a row, and when a NOT NULL column (title) would be null.
FlushOK(se, pe, dbv) ==
    /\ \A i, j \in DOMAIN pe : pe[i].id = pe[j].id => i = j
    /\ \A i \in DOMAIN pe : ~dbv[pe[i].id].exists /\ pe[i].row.title # Null
    /\ \A id \in TaskIds : se[id].loaded => se[id].cur.title # Null

\* An UPDATE sets the columns whose value differs from the loaded one.  Every
\* branch that touches a row assigns updated_at a timezone-aware datetime, which
\* never equals the naive one SQLite loaded, so updated_at is always in the SET
\* clause (and the column's onupdate default never applies).
Merge(row, o, c) ==
    [exists |-> TRUE,
     title |-> IF c.title # o.title THEN c.title ELSE row.title,
     description |-> IF c.description # o.description THEN c.description ELSE row.description,
     completed |-> IF c.completed # o.completed THEN c.completed ELSE row.completed,
     updated_at |-> c.updated_at,
     is_deleted |-> IF c.is_deleted # o.is_deleted THEN c.is_deleted ELSE row.is_deleted,
     sync_status |-> IF c.sync_status # o.sync_status THEN c.sync_status ELSE row.sync_status]

Flush(se, pe, dbv) ==
    [id \in TaskIds |->
        IF \E i \in DOMAIN pe : pe[i].id = id
        THEN pe[CHOOSE i \in DOMAIN pe : pe[i].id = id].row
        ELSE IF se[id].loaded /\ se[id].dirty THEN Merge(dbv[id], se[id].orig, se[id].cur)
        ELSE dbv[id]]

\* the whole loop and the commit on a table and a batch, no fault, clock now:
\* what the table is after the run (the table itself when the run raises or the
\* commit fails)
RECURSIVE Loop(_, _, _, _)
Loop(st, dbv, items, now) ==
    IF items = <<>> \/ st.raised THEN st
    ELSE Loop(ApplyItem(st, dbv, Head(items), FALSE, now), dbv, Tail(items), now)

Drain(dbv, items, now) ==
    LET st == Loop(RunState(NoSess, <<>>, <<>>, <<>>, <<>>), dbv, items, now)
    IN IF ~st.raised /\ FlushOK(st.sess, st.pend, dbv)
       THEN Flush(st.sess, st.pend, dbv) ELSE dbv

\* ------------------------------------------------------------------ Init
\* What the queue file holds at start: create with a full payload or one with
\* an empty title; update with a full payload, or with no updated_at (the
\* timestamp then falls back to queued_at); delete and the unknown operation
\* with the timestamp only (no branch reads another field of theirs).
Payloads(op) ==
    CASE op = "create" -> {FullData(ts) : ts \in Instants} \cup {BlankData(ts) : ts \in Instants}
      [] op = "update" -> {FullData(ts) : ts \in Instants \cup {NoTs}}
      [] op = "delete" -> {BareData(ts) : ts \in Instants}
      [] OTHER -> {BareData(1)}

FileItems ==
    UNION {{[task_id |-> id, operation |-> op, data |-> d, retry_count |-> 0,
             queued_at |-> 1] : id \in TaskIds, d \in Payloads(op)} : op \in Ops}

\* the settings of the RETRY_MAX environment variable tried (no statement reads
\* RETRY_MAX or MAX_RETRIES)
RetryMaxes == {0, 1}

\* the settings of the BATCH_SIZE environment variable tried
BatchSizes == {1, 2}

RECURSIVE SeqsUpTo(_, _)
SeqsUpTo(S, n) ==
    IF n = 0 THEN {<<>>}
    ELSE LET shorter == SeqsUpTo(S, n - 1)
         IN shorter \cup {Append(s, x) : s \in {q \in shorter : Len(q) = n - 1}, x \in S}

\* a row some client wrote earlier
ServerRows ==
    {[exists |-> TRUE, title |-> "s", description |-> Null, completed |-> FALSE,
      updated_at |-> ts, is_deleted |-> del, sync_status |-> "pending"] :
        ts \in Instants, del \in BOOLEAN}

Idle == [t \in Threads |-> "idle"]
Empty == [t \in Threads |-> <<>>]

\* The state after import, the queue file holding a list over items or nothing
\* loadable.
InitWith(items) ==
    /\ file \in {[kind |-> "list", items |-> q] : q \in SeqsUpTo(items, MaxLen)}
               \cup {[kind |-> k, items |-> <<>>] : k \in {"absent", "corrupt", "notalist"}}
    /\ tmp = [kind |-> "absent", items |-> <<>>]
    /\ queue = Load(file)
    /\ lock = Free
    /\ clock = 1
    /\ db \in [TaskIds -> ServerRows \cup {Absent}]
    /\ limit \in BatchSizes
    /\ pc = Idle
    /\ ret = [t \in Threads |-> "none"]
    /\ arg = Empty
    /\ batch = Empty
    /\ idx = [t \in Threads |-> 0]
    /\ processed = Empty
    /\ failed = Empty
    /\ conflicts = Empty
    /\ sess = [t \in Threads |-> NoSess]
    /\ pend = Empty
    /\ result = [t \in Threads |-> NoResult]
    /\ outcome = [t \in Threads |-> "none"]
    /\ q0 = Empty
    /\ db0 = [t \in Threads |-> db]
    /\ call = [t \in Threads |-> NoCall]

Init == InitWith(FileItems)

\* ------------------------------------------------- LocalQueue: the calls
\* a lock that is granted to whoever asks, held or not
CanAcquireAlways(t) == TRUE

\* threading.Lock.acquire: only a free lock is granted, whoever asks
CanAcquire(t) == lock = Free

\* add, lines 62-68: the item is built, queued_at = now_iso(), before the lock
AddCall(t) ==
    /\ pc[t] = "idle"
    /\ \E id \in TaskIds, op \in KnownOps, now \in clock..MaxTs :
        /\ clock' = now
        /\ arg' = [arg EXCEPT ![t] =
                <<[oid |-> FreshOid, task_id |-> id, operation |-> op,
                   data |-> IF op = "delete" THEN BareData(clock) ELSE FullData(clock),
                   retry_count |-> 0, queued_at |-> now]>>]
    /\ pc' = [pc EXCEPT ![t] = "add_lock"]
    /\ UNCHANGED <<qvars, db, limit, call, ret, runvars>>

\* an add that puts the new item at the head of the list
AddLockedFront(t) ==
    /\ pc[t] = "add_lock"
    /\ CanAcquire(t)
    /\ lock' = t
    /\ queue' = <<arg[t][1]>> \o queue
    /\ pc' = [pc EXCEPT ![t] = "save_lock"]
    /\ ret' = [ret EXCEPT ![t] = "add"]
    /\ UNCHANGED <<file, tmp, clock, db, limit, call, arg, runvars>>

\* add, lines 70-72: with self._lock: append, then the call of _save
AddLocked(t) ==
    /\ pc[t] = "add_lock"
    /\ CanAcquire(t)
    /\ lock' = t
    /\ queue' = Append(queue, arg[t][1])
    /\ pc' = [pc EXCEPT ![t] = "save_lock"]
    /\ ret' = [ret EXCEPT ![t] = "add"]
    /\ UNCHANGED <<file, tmp, clock, db, limit, call, arg, runvars>>

\* item dicts a caller of remove_items holds that are not objects of the queue
\* (their key may or may not be the key of a queued item)
StrayItems ==
    {LoadItem(f, 0) : f \in {g \in FileItems : g.operation = "update" /\ g.data.updated_at <= 1}}

\* a caller of remove_items: with one queued item, with an item that is not in
\* the queue, or with both (process_sync_once passes its processed list, see
\* RunCommit)
RemoveCall(t) ==
    /\ pc[t] = "idle"
    /\ \E items \in {<<queue[i]>> : i \in DOMAIN queue}
                    \cup {<<x>> : x \in StrayItems}
                    \cup {<<queue[i], x>> : i \in DOMAIN queue, x \in StrayItems} :
            arg' = [arg EXCEPT ![t] = items]
    /\ pc' = [pc EXCEPT ![t] = "rm_lock"]
    /\ ret' = [ret EXCEPT ![t] = "remove_items"]
    /\ UNCHANGED <<qvars, clock, db, limit, call, runvars>>

\* remove_items, lines 81-93: with self._lock: filter, assign, then _save
RemoveLocked(t) ==
    /\ pc[t] = "rm_lock"
    /\ CanAcquire(t)
    /\ lock' = t
    /\ queue' = RemoveItems(queue, arg[t])
    /\ pc' = [pc EXCEPT ![t] = "save_lock"]
    /\ UNCHANGED <<file, tmp, clock, db, limit, call, ret, arg, runvars>>

\* a caller of increment_retry with one queued item
IncrCall(t) ==
    /\ pc[t] = "idle"
    /\ \E i \in DOMAIN queue : arg' = [arg EXCEPT ![t] = <<queue[i]>>]
    /\ pc' = [pc EXCEPT ![t] = "incr_lock"]
    /\ UNCHANGED <<qvars, clock, db, limit, call, ret, runvars>>

\* increment_retry, lines 103-108: with self._lock: bump, then _save
IncrLocked(t) ==
    /\ pc[t] = "incr_lock"
    /\ CanAcquire(t)
    /\ lock' = t
    /\ queue' = IncrementRetry(queue, arg[t][1].oid)
    /\ pc' = [pc EXCEPT ![t] = "save_lock"]
    /\ ret' = [ret EXCEPT ![t] = "increment_retry"]
    /\ UNCHANGED <<file, tmp, clock, db, limit, call, arg, runvars>>

\* a caller of _save itself
SaveCall(t) ==
    /\ pc[t] = "idle"
    /\ pc' = [pc EXCEPT ![t] = "save_lock"]
    /\ ret' = [ret EXCEPT ![t] = "caller"]
    /\ UNCHANGED <<qvars, clock, db, limit, call, arg, runvars>>

\* _save, line 45: with self._lock
SaveLocked(t) ==
    /\ pc[t] = "save_lock"
    /\ CanAcquire(t)
    /\ lock' = t
    /\ pc' = [pc EXCEPT ![t] = "save_open"]
    /\ UNCHANGED <<file, tmp, queue, clock, db, limit, call, ret, arg, runvars>>

\* a _save that opens the queue file itself for writing
SaveOpenInPlace(t) ==
    /\ pc[t] = "save_open"
    /\ file' = [kind |-> "partial", items |-> <<>>]
    /\ tmp' = [kind |-> "partial", items |-> <<>>]
    /\ pc' = [pc EXCEPT ![t] = "save_dump"]
    /\ UNCHANGED <<queue, lock, clock, db, limit, call, ret, arg, runvars>>

\* _save, line 47: open(tmp, "w") truncates the temp file; the dump is under way
SaveOpen(t) ==
    /\ pc[t] = "save_open"
    /\ tmp' = [kind |-> "partial", items |-> <<>>]
    /\ pc' = [pc EXCEPT ![t] = "save_dump"]
    /\ UNCHANGED <<file, queue, lock, clock, db, limit, call, ret, arg, runvars>>

\* _save, lines 47-48: json.dump(self.queue, f) done, the temp file closed
SaveDump(t) ==
    /\ pc[t] = "save_dump"
    /\ tmp' = [kind |-> "list", items |-> Dump(queue)]
    /\ pc' = [pc EXCEPT ![t] = "save_replace"]
    /\ UNCHANGED <<file, queue, lock, clock, db, limit, call, ret, arg, runvars>>

\* _save, line 50: os.replace(tmp, self.file_path)
SaveReplace(t) ==
    /\ pc[t] = "save_replace"
    /\ file' = tmp
    /\ tmp' = [kind |-> "absent", items |-> <<>>]
    /\ pc' = [pc EXCEPT ![t] = "save_unlock"]
    /\ UNCHANGED <<queue, lock, clock, db, limit, call, ret, arg, runvars>>

\* _save's with block ends: the lock is released and _save returns.  A caller
\* that is itself inside "with self._lock" then releases a lock nobody holds,
\* which raises RuntimeError.
SaveReturn(t) ==
    /\ pc[t] = "save_unlock"
    /\ lock' = Free
    /\ pc' = [pc EXCEPT ![t] = IF ret[t] = "caller" THEN "done" ELSE "raised"]
    /\ UNCHANGED <<file, tmp, queue, clock, db, limit, call, ret, arg, runvars>>

\* ------------------------------------------------------- the task services
\* services/task_service.py (the one routes/tasks.py imports) and
\* services/taskService.py
Modules == {"task_service", "taskService"}

\* the payload create_task and update_task queue: the row's fields, and
\* task.updated_at.isoformat() (the instant the row holds)
TaskPayload(row) ==
    [title |-> row.title, description |-> row.description,
     completed |-> IF row.completed THEN "T" ELSE "F", updated_at |-> row.updated_at]

\* sync_queue.add(task.id, op, payload) up to the lock: the item is built,
\* queued_at = now_iso()
QueueOffline(t, id, op, data, now) ==
    /\ arg' = [arg EXCEPT ![t] =
            <<[oid |-> FreshOid, task_id |-> id, operation |-> op, data |-> data,
               retry_count |-> 0, queued_at |-> now]>>]
    /\ pc' = [pc EXCEPT ![t] = "add_lock"]

\* the service returns without a call of sync_queue.add
ServiceReturn(t) ==
    /\ pc' = [pc EXCEPT ![t] = "done"]
    /\ UNCHANGED arg

\* create_task(db, title, description, offline): the row is committed, then
\* task_service queues the create in the local queue when offline; taskService
\* writes a row of the sync_queue table instead and returns
CreateTaskCall(t) ==
    /\ pc[t] = "idle"
    /\ \E m \in Modules, id \in TaskIds, offline \in BOOLEAN, now \in clock..MaxTs :
        LET row == [exists |-> TRUE, title |-> "x", description |-> "d",
                    completed |-> FALSE, updated_at |-> now, is_deleted |-> FALSE,
                    sync_status |-> IF offline THEN "pending" ELSE "synced"]
        IN /\ ~db[id].exists
           /\ clock' = now
           /\ db' = [db EXCEPT ![id] = row]
           /\ call' = [call EXCEPT ![t] = [fn |-> "create", module |-> m, task_id |-> id,
                                           offline |-> offline, size |-> Len(queue)]]
           /\ IF offline /\ m = "task_service"
              THEN QueueOffline(t, id, "create", TaskPayload(row), now)
              ELSE ServiceReturn(t)
    /\ UNCHANGED <<qvars, limit, ret, runvars>>

\* update_task(db, task_id, updates, offline) on a task that exists and is not
\* deleted (None is returned otherwise): the fields of updates, updated_at and
\* sync_status are committed, then the update is queued when offline
UpdateTaskCall(t) ==
    /\ pc[t] = "idle"
    /\ \E m \in Modules, id \in TaskIds, offline \in BOOLEAN, now \in clock..MaxTs,
          title \in {"x", "y"} :
        LET row == [db[id] EXCEPT !.title = title, !.updated_at = now,
                                  !.sync_status = IF offline THEN "pending" ELSE "synced"]
        IN /\ db[id].exists /\ ~db[id].is_deleted
           /\ clock' = now
           /\ db' = [db EXCEPT ![id] = row]
           /\ call' = [call EXCEPT ![t] = [fn |-> "update", module |-> m, task_id |-> id,
                                           offline |-> offline, size |-> Len(queue)]]
           /\ IF offline
              THEN QueueOffline(t, id, "update", TaskPayload(row), now)
              ELSE ServiceReturn(t)
    /\ UNCHANGED <<qvars, limit, ret, runvars>>

\* delete_task(db, task_id, offline) on a task that exists (taskService: and is
\* not deleted): is_deleted, updated_at and sync_status are committed, then the
\* delete is queued when offline, with {"updated_at": ...} as payload
DeleteTaskCall(t) ==
    /\ pc[t] = "idle"
    /\ \E m \in Modules, id \in TaskIds, offline \in BOOLEAN, now \in clock..MaxTs :
        LET row == [db[id] EXCEPT !.is_deleted = TRUE, !.updated_at = now,
                                  !.sync_status = IF offline THEN "pending" ELSE "synced"]
        IN /\ db[id].exists
           /\ m = "taskService" => ~db[id].is_deleted
           /\ clock' = now
           /\ db' = [db EXCEPT ![id] = row]
           /\ call' = [call EXCEPT ![t] = [fn |-> "delete", module |-> m, task_id |-> id,
                                           offline |-> offline, size |-> Len(queue)]]
           /\ IF offline
              THEN QueueOffline(t, id, "delete", BareData(now), now)
              ELSE ServiceReturn(t)
    /\ UNCHANGED <<qvars, limit, ret, runvars>>

\* ------------------------------------------------------ process_sync_once
\* lines 87-93: batch = sync_queue.get_batch(limit=BATCH_SIZE), under the lock
RunPeek(t) ==
    /\ pc[t] = "idle"
    /\ CanAcquire(t)
    /\ batch' = [batch EXCEPT ![t] = GetBatch(queue, limit)]
    /\ idx' = [idx EXCEPT ![t] = 1]
    /\ q0' = [q0 EXCEPT ![t] = queue]
    /\ db0' = [db0 EXCEPT ![t] = db]
    /\ pc' = [pc EXCEPT ![t] = IF queue = <<>> THEN "empty_size" ELSE "loop"]
    /\ UNCHANGED <<qvars, clock, db, limit, call, ret, arg, processed, failed, conflicts,
                   sess, pend, result, outcome>>

\* line 89: the empty batch's summary; size() takes the lock
RunEmptyReturn(t) ==
    /\ pc[t] = "empty_size"
    /\ CanAcquire(t)
    /\ result' = [result EXCEPT ![t] =
            [NoResult EXCEPT !.returned = TRUE, !.remaining = Len(queue)]]
    /\ pc' = [pc EXCEPT ![t] = "done"]
    /\ UNCHANGED <<qvars, clock, db, limit, call, ret, arg, batch, idx, processed, failed,
                   conflicts, sess, pend, outcome, q0, db0>>

\* item["retry_count"] = retry_count + 1 writes the dict the queue also holds
BumpRetry(q, o, rc) ==
    [i \in DOMAIN q |-> IF q[i].oid = o THEN [q[i] EXCEPT !.retry_count = rc + 1] ELSE q[i]]

\* lines 95-194: one pass of the loop body, on batch[idx]; fault: an exception
\* is raised inside the try block
LoopBody(t, fault) ==
    /\ pc[t] = "loop"
    /\ LET it == batch[t][idx[t]]
           usesNow == ClientUpdatedAt(it) = NoTs /\ ~fault
       IN \E now \in clock..MaxTs :
            /\ ~usesNow => now = clock
            /\ clock' = now
            /\ LET st == ApplyItem(RunState(sess[t], pend[t], processed[t], failed[t],
                                            conflicts[t]), db, it, fault, now)
                   bump == fault /\ ~st.raised
               IN /\ sess' = [sess EXCEPT ![t] = st.sess]
                  /\ pend' = [pend EXCEPT ![t] = st.pend]
                  /\ processed' = [processed EXCEPT ![t] = st.processed]
                  /\ failed' = [failed EXCEPT ![t] = st.failed]
                  /\ conflicts' = [conflicts EXCEPT ![t] = st.conflicts]
                  /\ queue' = IF bump THEN BumpRetry(queue, it.oid, it.retry_count)
                              ELSE queue
                  /\ batch' = IF bump
                              THEN [batch EXCEPT ![t] = BumpRetry(@, it.oid, it.retry_count)]
                              ELSE batch
                  /\ idx' = [idx EXCEPT ![t] = @ + 1]
                  /\ pc' = [pc EXCEPT ![t] =
                        IF st.raised THEN "raised"
                        ELSE IF idx[t] = Len(batch[t]) THEN "commit" ELSE "loop"]
    /\ UNCHANGED <<file, tmp, lock, db, limit, call, ret, arg, result, outcome, q0, db0>>

\* the loop body when nothing inside the try block raises
RunItem(t) == LoopBody(t, FALSE)

\* the loop body when a statement of the try block raises (lines 191-194); the
\* retry counter is capped
RunItemRaise(t) ==
    /\ pc[t] = "loop"
    /\ batch[t][idx[t]].retry_count < MaxRetry
    /\ LoopBody(t, TRUE)

\* a run that calls remove_items(processed) whether or not the commit succeeded
RunCommitThenRemove(t) ==
    /\ pc[t] = "commit"
    /\ \E storeOK \in BOOLEAN :
        /\ IF storeOK /\ FlushOK(sess[t], pend[t], db)
           THEN /\ db' = Flush(sess[t], pend[t], db)
                /\ outcome' = [outcome EXCEPT ![t] = "committed"]
           ELSE /\ db' = db
                /\ outcome' = [outcome EXCEPT ![t] = "rolled back"]
        /\ arg' = [arg EXCEPT ![t] = processed[t]]
        /\ ret' = [ret EXCEPT ![t] = "process_sync_once"]
        /\ pc' = [pc EXCEPT ![t] = "rm_lock"]
    /\ UNCHANGED <<qvars, clock, limit, call, batch, idx, processed, failed, conflicts, sess,
                   pend, result, q0, db0>>

\* db.commit() that keeps what the flush wrote when the store then fails
RunCommitPartial(t) ==
    /\ pc[t] = "commit"
    /\ \E storeOK \in BOOLEAN :
        IF storeOK /\ FlushOK(sess[t], pend[t], db)
        THEN /\ db' = Flush(sess[t], pend[t], db)
             /\ outcome' = [outcome EXCEPT ![t] = "committed"]
             /\ arg' = [arg EXCEPT ![t] = processed[t]]
             /\ ret' = [ret EXCEPT ![t] = "process_sync_once"]
             /\ pc' = [pc EXCEPT ![t] = "rm_lock"]
        ELSE /\ db' = IF FlushOK(sess[t], pend[t], db) THEN Flush(sess[t], pend[t], db)
                      ELSE db
             /\ outcome' = [outcome EXCEPT ![t] = "rolled back"]
             /\ pc' = [pc EXCEPT ![t] = "failed_size"]
             /\ UNCHANGED <<arg, ret>>
    /\ UNCHANGED <<qvars, clock, limit, call, batch, idx, processed, failed, conflicts, sess,
                   pend, result, q0, db0>>

\* lines 197-210: db.commit().  It fails when the flush raises, and when the
\* store itself fails (storeOK false).  On success the run calls
\* remove_items(processed); on failure it goes on to the error summary.
RunCommit(t) ==
    /\ pc[t] = "commit"
    /\ \E storeOK \in BOOLEAN :
        IF storeOK /\ FlushOK(sess[t], pend[t], db)
        THEN /\ db' = Flush(sess[t], pend[t], db)
             /\ outcome' = [outcome EXCEPT ![t] = "committed"]
             /\ arg' = [arg EXCEPT ![t] = processed[t]]
             /\ ret' = [ret EXCEPT ![t] = "process_sync_once"]
             /\ pc' = [pc EXCEPT ![t] = "rm_lock"]
        ELSE /\ outcome' = [outcome EXCEPT ![t] = "rolled back"]
             /\ pc' = [pc EXCEPT ![t] = "failed_size"]
             /\ UNCHANGED <<db, arg, ret>>
    /\ UNCHANGED <<qvars, clock, limit, call, batch, idx, processed, failed, conflicts, sess,
                   pend, result, q0, db0>>

\* lines 201-207: the summary of a failed commit; size() takes the lock
RunFailReturn(t) ==
    /\ pc[t] = "failed_size"
    /\ CanAcquire(t)
    /\ result' = [result EXCEPT ![t] =
            [returned |-> TRUE, synced_items |-> 0, failed_items |-> Len(batch[t]),
             conflicts |-> conflicts[t], error |-> TRUE, remaining |-> Len(queue)]]
    /\ pc' = [pc EXCEPT ![t] = "done"]
    /\ UNCHANGED <<qvars, clock, db, limit, call, ret, arg, batch, idx, processed, failed,
                   conflicts, sess, pend, outcome, q0, db0>>

\* the call is over (it returned, or its exception reached the caller); the
\* thread serves the next request with fresh locals and a fresh Session
Return(t) ==
    /\ pc[t] \in {"done", "raised"}
    /\ pc' = [pc EXCEPT ![t] = "idle"]
    /\ ret' = [ret EXCEPT ![t] = "none"]
    /\ arg' = [arg EXCEPT ![t] = <<>>]
    /\ batch' = [batch EXCEPT ![t] = <<>>]
    /\ idx' = [idx EXCEPT ![t] = 0]
    /\ processed' = [processed EXCEPT ![t] = <<>>]
    /\ failed' = [failed EXCEPT ![t] = <<>>]
    /\ conflicts' = [conflicts EXCEPT ![t] = <<>>]
    /\ sess' = [sess EXCEPT ![t] = NoSess]
    /\ pend' = [pend EXCEPT ![t] = <<>>]
    /\ result' = [result EXCEPT ![t] = NoResult]
    /\ outcome' = [outcome EXCEPT ![t] = "none"]
    /\ q0' = [q0 EXCEPT ![t] = <<>>]
    /\ db0' = [db0 EXCEPT ![t] = db]
    /\ call' = [call EXCEPT ![t] = NoCall]
    /\ UNCHANGED <<qvars, clock, db, limit>>

\* The process dies and is started again: every thread, the lock and the
\* uncommitted Sessions are gone; LocalQueue.__init__ loads the queue file.
Restart ==
    /\ \E t \in Threads : pc[t] # "idle"
    /\ queue' = Load(file)
    /\ lock' = Free
    /\ pc' = Idle
    /\ ret' = [t \in Threads |-> "none"]
    /\ arg' = Empty
    /\ batch' = Empty
    /\ idx' = [t \in Threads |-> 0]
    /\ processed' = Empty
    /\ failed' = Empty
    /\ conflicts' = Empty
    /\ sess' = [t \in Threads |-> NoSess]
    /\ pend' = Empty
    /\ result' = [t \in Threads |-> NoResult]
    /\ outcome' = [t \in Threads |-> "none"]
    /\ q0' = Empty
    /\ db0' = [t \in Threads |-> db]
    /\ call' = [t \in Threads |-> NoCall]
    /\ UNCHANGED <<file, tmp, clock, db, limit>>

SaveStep(t) ==
    \/ SaveCall(t) \/ SaveLocked(t) \/ SaveOpen(t) \/ SaveDump(t) \/ SaveReplace(t)
    \/ SaveReturn(t)

QueueStep(t) ==
    \/ AddCall(t) \/ AddLocked(t)
    \/ RemoveCall(t) \/ RemoveLocked(t)
    \/ IncrCall(t) \/ IncrLocked(t)
    \/ SaveStep(t)
    \/ Return(t)

RunStep(t) ==
    \/ RunPeek(t) \/ RunEmptyReturn(t) \/ RunItem(t) \/ RunCommit(t) \/ RemoveLocked(t)
    \/ RunFailReturn(t) \/ Return(t)

\* The reconciler: one worker serving sync requests one after the other, and
\* process restarts.  remove_items ends at _save's "with self._lock", which the
\* worker enters holding the lock: SaveLocked is never enabled for it.
Next ==
    \/ RunStep("t1")
    \/ Restart

Spec == Init /\ [][Next]_vars

\* The reconciler when statements of the try block may raise.
NextFault ==
    \/ RunStep("t1")
    \/ RunItemRaise("t1")
    \/ Restart

InitFault ==
    /\ Init
    /\ \A i \in DOMAIN file.items : file.items[i].operation \in {"update", "purge"}

SpecFault == InitFault /\ [][NextFault]_vars

\* The queue: two workers calling LocalQueue concurrently, and restarts.
InitQueue ==
    /\ Init
    /\ \A i \in DOMAIN file.items : file.items[i].operation = "update"
    /\ db = [i \in TaskIds |-> Absent]
    /\ limit = 2

NextQueue ==
    \/ \E t \in Threads : QueueStep(t)
    \/ Restart

SpecQueue == InitQueue /\ [][NextQueue]_vars

\* _save called with the lock free, between runs of the reconciler whose try
\* block may raise: the queue it writes to the file is then not the one loaded
\* from it (the retry counts differ).
NextSave ==
    \/ NextFault
    \/ SaveStep("t1")

SpecSave == InitQueue /\ [][NextSave]_vars

\* The reconciler over a queue in which an item's payload carries an updated_at
\* that parse_iso cannot read (add() stores whatever dict it is given).
ParseItems ==
    {[task_id |-> id, operation |-> "update", data |-> FullData(ts), retry_count |-> 0,
      queued_at |-> 1] : id \in TaskIds, ts \in {1, BadTs}}

InitParse == InitWith(ParseItems)

SpecParse == InitParse /\ [][Next]_vars

\* The task services: one worker serving create, update and delete requests
\* one after the other, online and offline, and process restarts.  An offline
\* call ends in LocalQueue.add.
ServiceStep(t) ==
    \/ CreateTaskCall(t) \/ UpdateTaskCall(t) \/ DeleteTaskCall(t)
    \/ AddLocked(t)
    \/ Return(t)

NextService ==
    \/ ServiceStep("t1")
    \/ Restart

InitService ==
    /\ Init
    /\ \A i \in DOMAIN file.items : file.items[i].operation = "update"
    /\ limit = 2

SpecService == InitService /\ [][NextService]_vars

\* Two sync requests served at the same time (the handlers are plain def
\* functions, which the server runs on worker threads), each with its own
\* Session, over the one queue and the one table.
NextOverlap ==
    \/ \E t \in Threads : RunStep(t)
    \/ Restart

InitOverlap ==
    /\ Init
    /\ \A i \in DOMAIN file.items : file.items[i].operation \in {"create", "update"}
    /\ limit = 2

SpecOverlap == InitOverlap /\ [][NextOverlap]_vars

\* ============================================================ properties
Worker == "t1"
Committed(t) == outcome[t] = "committed"
Queued(it) == \E i \in DOMAIN queue : queue[i].oid = it.oid

\* ----------------------------------------------------------------------- C1
\* C1 (SpecQueue): a call of add, remove_items or increment_retry returns when
\* no other thread keeps the lock: the call that has reached _save's
\* "with self._lock" is never waiting for a lock that it holds itself.
C1_CallNeverWaitsOnItself ==
    \A t \in Threads :
        (pc[t] = "save_lock" /\ ret[t] \in {"add", "remove_items", "increment_retry"})
            => lock # t

\* what a fresh run of the reconciler on table dbv and batch items ends with
\* (its locals after the loop), no exception injected
Rerun(dbv, items) == Loop(RunState(NoSess, <<>>, <<>>, <<>>, <<>>), dbv, items, clock)
\* the run on items reports no failure: no item failed and the commit went through
NoFailure(dbv, items) ==
    LET st == Rerun(dbv, items)
    IN ~st.raised /\ st.failed = <<>> /\ FlushOK(st.sess, st.pend, dbv)
Stamped(it) == it.operation \in KnownOps /\ ClientUpdatedAt(it) \in Instants

\* ----------------------------------------------------------------------- C2
\* C2 (Spec): when a run has committed a batch of two known operations on the
\* same task id whose client timestamps differ, the record the store now holds
\* is the record the same store would hold had the two been enqueued the other
\* way round, and the record it would hold had only the later one been queued.
C2_OrderIndependent ==
    \A t \in Threads :
        (/\ Committed(t)
         /\ Len(batch[t]) = 2
         /\ batch[t][1].task_id = batch[t][2].task_id
         /\ Stamped(batch[t][1]) /\ Stamped(batch[t][2])
         /\ ClientUpdatedAt(batch[t][1]) # ClientUpdatedAt(batch[t][2]))
        => LET a == batch[t][1]
               b == batch[t][2]
               id == a.task_id
               later == IF ClientUpdatedAt(a) > ClientUpdatedAt(b) THEN a ELSE b
           IN /\ db[id] = Drain(db0[t], <<b, a>>, clock)[id]
              /\ db[id] = Drain(db0[t], <<later>>, clock)[id]

\* ----------------------------------------------------------------------- C3
\* C3 (Spec): when a run has committed a batch of one item with a known
\* operation and the item is still queued, running the reconciler on that item
\* again leaves the record as the first run left it and reports no failure.
C3_ReplayIsNoOp ==
    \A t \in Threads :
        (/\ Committed(t)
         /\ Len(batch[t]) = 1
         /\ Stamped(batch[t][1])
         /\ Queued(batch[t][1]))
        => /\ Drain(db, batch[t], clock)[batch[t][1].task_id] = db[batch[t][1].task_id]
           /\ NoFailure(db, batch[t])

\* ----------------------------------------------------------------------- C4
\* the run returned the summary of a failed commit
CommitFailed(t) == result[t].returned /\ result[t].error
\* item it is one whose handling raised in run t
Raised(t, it) ==
    \E k \in DOMAIN failed[t] :
        failed[t][k].item.oid = it.oid /\ failed[t][k].error = "exception"
\* q holds the items of p in the order of p; retry_count may differ, and only
\* on the items whose handling raised in run t
SameButRetry(t, q, p) ==
    /\ Len(q) = Len(p)
    /\ \A i \in DOMAIN q :
        \/ q[i] = p[i]
        \/ [q[i] EXCEPT !.retry_count = p[i].retry_count] = p[i] /\ Raised(t, q[i])

\* C4 as stated (SpecFault): after a run whose commit failed the queue is
\* exactly the queue before the run, the store is the store before the run and
\* the summary has synced_items = 0 and an error.
C4_QueueExactlyAsBefore ==
    \A t \in Threads :
        CommitFailed(t) =>
            queue = q0[t] /\ db = db0[t] /\ result[t].synced_items = 0

\* C4 amended (SpecFault): after a run whose commit failed the queue holds the
\* items it held before the run, in the same order, none removed, each with its
\* fields unchanged except the retry_count of the items whose handling raised;
\* the store is the store before the run; the summary has synced_items = 0 and
\* an error.
C4_AtomicBatchCommit ==
    \A t \in Threads :
        CommitFailed(t) =>
            /\ SameButRetry(t, queue, q0[t])
            /\ db = db0[t]
            /\ result[t].synced_items = 0

\* a failed commit of a run that had applied one item and had one item raise
C4_Witness ==
    /\ CommitFailed(Worker)
    /\ processed[Worker] # <<>>
    /\ pend[Worker] # <<>>
    /\ queue # q0[Worker]

\* ------------------------------------------------------------------ C5, C6
\* the step is one pass of run t's loop body
LoopStep(t) == pc[t] = "loop" /\ idx'[t] = idx[t] + 1
\* the item the pass handles, the record the run sees for it, its timestamp
Cur(t) == batch[t][idx[t]]
Seen(t) == Existing(sess[t], db, Cur(t).task_id)
SeenAfter(t) == Existing(sess'[t], db', Cur(t).task_id)
Tie(t) == Seen(t).exists /\ Seen(t).updated_at = ClientUpdatedAt(Cur(t))
ServerNewer(t) == Seen(t).exists /\ Seen(t).updated_at > ClientUpdatedAt(Cur(t))

\* C5 (Spec): a pass of the loop over an item with a known operation whose
\* client timestamp equals the updated_at of the existing record adds nothing
\* to conflicts, counts the item as processed and applies the operation to the
\* record (payload fields for create and update, is_deleted for delete,
\* updated_at = the client timestamp, sync_status = synced); a pass adds a
\* conflict entry only when the record's updated_at is strictly greater than
\* the client timestamp.
C5_TieFavorsClient ==
    [][\A t \in Threads : LoopStep(t) =>
        /\ (Tie(t) /\ Cur(t).operation \in KnownOps) =>
              /\ conflicts'[t] = conflicts[t]
              /\ failed'[t] = failed[t]
              /\ processed'[t] = Append(processed[t], Cur(t))
              /\ SeenAfter(t).updated_at = ClientUpdatedAt(Cur(t))
              /\ SeenAfter(t).sync_status = "synced"
              /\ Cur(t).operation = "delete" =>
                    /\ SeenAfter(t).is_deleted
                    /\ SeenAfter(t).title = Seen(t).title
              /\ Cur(t).operation \in {"create", "update"} =>
                    /\ SeenAfter(t).title = GetOr(Cur(t).data.title, Seen(t).title)
                    /\ SeenAfter(t).description =
                            GetOr(Cur(t).data.description, Seen(t).description)
                    /\ SeenAfter(t).completed =
                            BoolOr(Cur(t).data.completed, Seen(t).completed)
                    /\ SeenAfter(t).is_deleted = Seen(t).is_deleted
        /\ conflicts'[t] # conflicts[t] => ServerNewer(t)
      ]_vars

\* the run has just applied its first item, a payload-carrying one, to a record
\* whose updated_at equals the item's client timestamp
C5_Witness ==
    /\ idx[Worker] = 2
    /\ db0[Worker]["A"].exists
    /\ db0[Worker]["A"].updated_at = ClientUpdatedAt(batch[Worker][1])
    /\ batch[Worker][1].operation = "update"
    /\ processed[Worker] = <<batch[Worker][1]>>
    /\ conflicts[Worker] = <<>>
    /\ sess[Worker]["A"].cur.title = "x"

\* C6 (Spec): a pass of the loop over an item whose client timestamp is
\* strictly less than the updated_at of the existing record leaves every field
\* of the record as it was (in the store and in the run's session), appends
\* exactly one conflict entry, carrying the item's task_id and operation, and
\* leaves the failed list as it was; and the commit of a run all of whose items
\* were conflicts leaves the store as it was.
C6_ServerWinsOnConflict ==
    [][\A t \in Threads :
        /\ (LoopStep(t) /\ ServerNewer(t)) =>
              /\ SeenAfter(t) = Seen(t)
              /\ db' = db
              /\ pend'[t] = pend[t]
              /\ sess'[t][Cur(t).task_id].dirty = sess[t][Cur(t).task_id].dirty
              /\ Len(conflicts'[t]) = Len(conflicts[t]) + 1
              /\ SubSeq(conflicts'[t], 1, Len(conflicts[t])) = conflicts[t]
              /\ conflicts'[t][Len(conflicts'[t])].task_id = Cur(t).task_id
              /\ conflicts'[t][Len(conflicts'[t])].operation = Cur(t).operation
              /\ failed'[t] = failed[t]
              /\ processed'[t] = Append(processed[t], Cur(t))
        /\ (pc[t] = "commit" /\ pc'[t] = "rm_lock"
                /\ Len(conflicts[t]) = Len(batch[t])) => db' = db
      ]_vars

\* the run has committed a batch of two items that both lost against a newer
\* record
C6_Witness ==
    /\ Committed(Worker)
    /\ Len(batch[Worker]) = 2
    /\ Len(conflicts[Worker]) = 2
    /\ conflicts[Worker][1].operation = "delete"
    /\ db = db0[Worker]
    /\ db["A"].sync_status = "pending"

\* ------------------------------------------------------------------ C7, C8
\* run t has called remove_items(processed) and the queue has been filtered
Removed(t) == pc[t] = "save_lock" /\ ret[t] = "process_sync_once"
Resolved(t, it) == \E k \in DOMAIN processed[t] : processed[t][k].oid = it.oid
InFile(it) ==
    file.kind = "list" /\ \E j \in DOMAIN file.items : file.items[j] = DumpItem(it)

\* C7 (Spec): once a run whose commit succeeded has removed its items, the
\* queue is the queue before the run without exactly the resolved items of the
\* batch: every other item is still there, at its place in the order.
C7_ExactlyResolvedRemoved ==
    \A t \in Threads :
        Removed(t) =>
            queue = SelectSeqBy(q0[t], {i \in DOMAIN q0[t] : ~Resolved(t, q0[t][i])})

AtRest(t) == pc[t] = "idle" \/ ~ENABLED QueueStep(t)

\* C9 (SpecQueue): when every call that is under way is an add and no thread
\* can take a further step, a LocalQueue constructed on the file holds the items
\* of the queue in memory, with the same field values, in the same order.
C9_RestartReloadsQueue ==
    (/\ \A t \in Threads : AtRest(t)
     /\ \A t \in Threads : pc[t] # "idle" => ret[t] = "add")
    => Dump(Load(file)) = Dump(queue)

\* ---------------------------------------------------------------------- C10
\* C10 (SpecSave): every step, a crash included, leaves the queue file as it
\* was or makes it the complete dump of the queue being written; the file is
\* never a partly written one.
C10_CrashSafePersistence ==
    [][/\ file' = file \/ file' = [kind |-> "list", items |-> Dump(queue)]
       /\ file'.kind # "partial"
       /\ (\E t \in Threads : pc[t] \in {"save_open", "save_dump"}) /\ pc' = Idle
            => Dump(Load(file')) = Dump(Load(file))
      ]_vars

\* _save has replaced the queue file by a dump that differs from what the file
\* held (a retry_count changed in memory)
C10_Witness ==
    /\ pc[Worker] = "save_unlock"
    /\ file.kind = "list"
    /\ tmp.kind = "absent"
    /\ \E i \in DOMAIN file.items : file.items[i].retry_count > 0

\* ---------------------------------------------------------------------- C11
\* thread t is inside a mutate-and-persist section: it has appended, removed or
\* bumped under the lock and not yet left _save, or it is inside _save's block
InSection(t) ==
    \/ pc[t] \in {"save_open", "save_dump", "save_replace", "save_unlock"}
    \/ pc[t] = "save_lock" /\ ret[t] \in {"add", "remove_items", "increment_retry"}

\* C11 (SpecQueue): whatever the interleaving of the threads' calls, at most
\* one thread is inside a mutate-and-persist section and it is the holder of
\* the lock; the queue does not change while another thread is writing it out,
\* and what a write puts in the queue file is the dump of the queue as a whole
\* number of appends and removals left it.
C11_MutualExclusion ==
    [][/\ \A t, u \in Threads : (InSection(t) /\ InSection(u))' => t = u
       /\ \A t \in Threads : InSection(t)' => lock' = t
       /\ \A t \in Threads :
            (pc[t] \in {"save_open", "save_dump", "save_replace"} /\ pc' # Idle)
                => queue' = queue
       /\ file' # file => file' = [kind |-> "list", items |-> Dump(queue)]
      ]_vars

\* one thread has appended and holds the lock while the other, with an item of
\* its own to append, waits for it
C11_Witness ==
    /\ pc["t1"] = "save_lock" /\ ret["t1"] = "add" /\ lock = "t1"
    /\ pc["t2"] = "add_lock"
    /\ Len(queue) = 2

\* ---------------------------------------------------------------------- C12
\* C12 (Spec): once a run has removed its items, every item that was queued
\* when the run peeked and was not in its batch is still in the queue.
C12_OnlyBatchItemsRemoved ==
    \A t \in Threads :
        Removed(t) =>
            \A i \in DOMAIN q0[t] : i \notin DOMAIN batch[t] => Queued(q0[t][i])

\* ---------------------------------------------------------------------- C13
\* the step is the one in which thread t's add takes effect
AddStep(t) == pc[t] = "add_lock" /\ pc'[t] = "save_lock"

\* C13 (SpecQueue): the step in which an add takes effect leaves every item
\* queued before it unchanged and at its position and puts the new item, with
\* the task id, operation and payload passed, retry_count = 0 and queued_at
\* set, at the tail; so the queue lists the added items in the order in which
\* the adds took effect.
C13_AddAppends ==
    [][\A t \in Threads : AddStep(t) =>
        /\ Len(queue') = Len(queue) + 1
        /\ SubSeq(queue', 1, Len(queue)) = queue
        /\ queue'[Len(queue')] = arg[t][1]
        /\ queue'[Len(queue')].retry_count = 0
        /\ queue'[Len(queue')].queued_at \in Instants
        /\ queue'[Len(queue')].operation \in KnownOps
        /\ \A i \in DOMAIN queue : queue[i].oid # queue'[Len(queue')].oid
      ]_vars

\* an add has taken effect on a queue that held an item loaded from the file
C13_Witness ==
    /\ pc[Worker] = "save_lock" /\ ret[Worker] = "add"
    /\ Len(queue) = 2
    /\ DumpItem(queue[1]) = file.items[1]
    /\ queue[2] = arg[Worker][1]
    /\ queue[2].operation = "delete"

\* ---------------------------------------------------------------------- C14
\* the step is run t's call of get_batch(limit)
PeekStep(t) == pc[t] = "idle" /\ pc'[t] \in {"loop", "empty_size"}

\* C14 (Spec): get_batch(limit) returns the first min(limit, size) items of the
\* queue, in the queue's order, and leaves the queue, its file and the lock as
\* they were; a second get_batch(limit) right after it returns the same items.
C14_GetBatchIsAPeek ==
    [][\A t \in Threads : PeekStep(t) =>
        /\ Len(batch'[t]) = IF limit < Len(queue) THEN limit ELSE Len(queue)
        /\ \A i \in DOMAIN batch'[t] : batch'[t][i] = queue[i]
        /\ queue' = queue
        /\ file' = file
        /\ lock' = lock
        /\ GetBatch(queue', limit) = batch'[t]
      ]_vars

\* a run has peeked one item of a queue of two different items
C14_Witness ==
    /\ pc[Worker] = "loop" /\ idx[Worker] = 1
    /\ limit = 1
    /\ Len(queue) = 2
    /\ batch[Worker] = <<queue[1]>>
    /\ DumpItem(queue[1]) # DumpItem(queue[2])

\* ---------------------------------------------------------------------- C15
\* the step is the one in which thread t's remove_items filters the queue
RemoveStep(t) == pc[t] = "rm_lock" /\ pc'[t] = "save_lock"
\* queue entry e has the key of one of items
Matches(e, items) == \E j \in DOMAIN items : Key(e) = Key(items[j])

\* C15 (SpecQueue): remove_items, given items of which any may be absent from
\* the queue, raises nothing and removes exactly the entries that match one of
\* them, keeping the others in their order; removing the same items from the
\* result once more changes nothing.
C15_RemoveIsIdempotent ==
    [][\A t \in Threads : RemoveStep(t) =>
        /\ queue' = SelectSeqBy(queue, {i \in DOMAIN queue : ~Matches(queue[i], arg[t])})
        /\ \A i \in DOMAIN queue' : ~Matches(queue'[i], arg[t])
        /\ RemoveItems(queue', arg[t]) = queue'
        /\ pc'[t] # "raised"
      ]_vars

\* remove_items was given a queued item and an item that matches no entry: the
\* first is gone, the other entry of the queue is still there
C15_Witness ==
    /\ pc[Worker] = "save_lock" /\ ret[Worker] = "remove_items"
    /\ Len(arg[Worker]) = 2
    /\ Len(file.items) = 2
    /\ DumpItem(arg[Worker][1]) = file.items[1]
    /\ \A i \in DOMAIN file.items : Key(file.items[i]) # Key(arg[Worker][2])
    /\ Len(queue) = 1
    /\ DumpItem(queue[1]) = file.items[2]

\* ---------------------------------------------------------------------- C16
\* the step is a restart of the process: LocalQueue is constructed anew
RestartStep == pc' = Idle /\ \E t \in Threads : pc[t] \notin {"idle", "done", "raised"}
Unloadable(f) == f.kind \in {"absent", "corrupt", "notalist"}

\* C16 (SpecQueue): the queue constructed on a file that does not exist, that
\* cannot be read or parsed, or that holds something other than a list is
\* empty (size 0), at the first start and at every restart, and the
\* construction completes; constructed on a file that holds a list, the queue
\* holds the list's items.
C16_LoadFailureAbsorbed ==
    /\ Unloadable(file) => Len(queue) = 0
    /\ [][RestartStep =>
            /\ Unloadable(file') => Len(queue') = 0
            /\ file'.kind = "list" => Dump(queue') = file'.items
            /\ lock' = Free
         ]_vars

\* the process has been restarted on a file that holds no list, after an add
\* had put an item in the queue in memory
C16_Witness ==
    /\ pc = Idle
    /\ file.kind \in {"corrupt", "notalist"}
    /\ queue = <<>>
    /\ clock > 1

\* ---------------------------------------------------------------------- C17
\* run t's batch entry i is a create or an update for an id that had no record
\* when the run began
UpsertOnAbsent(t, i) ==
    /\ batch[t][i].operation \in {"create", "update"}
    /\ ~db0[t][batch[t][i].task_id].exists
\* record r carries the fields payload d gives
Carries(r, d) ==
    /\ d.title # Missing => r.title = d.title
    /\ d.description # Missing => r.description = d.description
    /\ d.completed # Missing => r.completed = (d.completed = "T")

\* C17 (Spec): when a run has committed a batch that holds a create or an
\* update for an id without a record, no conflict was reported for that id and
\* the store holds a record for it that carries the payload's fields, with
\* is_deleted = false, sync_status = synced and updated_at = the item's client
\* timestamp.
C17_UpsertOnAbsent ==
    \A t \in Threads : \A i \in DOMAIN batch[t] :
        (Committed(t) /\ UpsertOnAbsent(t, i)) =>
            LET it == batch[t][i]
                r == db[it.task_id]
            IN /\ \A k \in DOMAIN conflicts[t] : conflicts[t][k].task_id # it.task_id
               /\ r.exists
               /\ Carries(r, it.data)
               /\ ~r.is_deleted
               /\ r.sync_status = "synced"
               /\ r.updated_at = ClientUpdatedAt(it)

\* ---------------------------------------------------------------------- C18
\* the step is the successful commit of run t
CommitStep(t) == pc[t] = "commit" /\ pc'[t] = "rm_lock"
DeleteOf(t) == Cur(t).operation = "delete"

\* C18 (Spec): a pass of the loop over a delete item that is not in conflict
\* with the existing record sets the record's is_deleted and sets updated_at
\* to the item's client timestamp, keeps the record and leaves title,
\* description and completed as they were; over a delete item whose record is
\* absent it creates and changes nothing and counts the item as processed; a
\* commit removes no row and stores the deleted record with those fields; and
\* the removal that follows the commit takes every processed item out of the
\* queue.
C18_SoftDelete ==
    [][\A t \in Threads :
        /\ (LoopStep(t) /\ DeleteOf(t) /\ Seen(t).exists /\ ~ServerNewer(t)) =>
              /\ SeenAfter(t) = [Seen(t) EXCEPT !.is_deleted = TRUE,
                                                !.updated_at = ClientUpdatedAt(Cur(t)),
                                                !.sync_status = "synced"]
              /\ SeenAfter(t).exists
              /\ pend'[t] = pend[t]
              /\ processed'[t] = Append(processed[t], Cur(t))
        /\ (LoopStep(t) /\ DeleteOf(t) /\ ~Seen(t).exists) =>
              /\ pend'[t] = pend[t] /\ sess'[t] = sess[t] /\ db' = db
              /\ conflicts'[t] = conflicts[t] /\ failed'[t] = failed[t]
              /\ processed'[t] = Append(processed[t], Cur(t))
        /\ CommitStep(t) =>
              /\ \A id \in TaskIds : db[id].exists => db'[id].exists
              /\ (Len(batch[t]) = 1 /\ batch[t][1].operation = "delete"
                    /\ db[batch[t][1].task_id].exists /\ conflicts[t] = <<>>) =>
                    db'[batch[t][1].task_id] =
                        [db[batch[t][1].task_id] EXCEPT
                            !.is_deleted = TRUE,
                            !.updated_at = ClientUpdatedAt(batch[t][1]),
                            !.sync_status = "synced"]
        /\ (RemoveStep(t) /\ ret[t] = "process_sync_once") =>
              \A k \in DOMAIN processed[t] :
                  \A j \in DOMAIN queue' : queue'[j].oid # processed[t][k].oid
      ]_vars

\* a run has committed a delete of a record that was live: the record is still
\* there, flagged, with its title and the delete's later timestamp
C18_Witness ==
    /\ Committed(Worker)
    /\ Len(batch[Worker]) = 1
    /\ batch[Worker][1].operation = "delete"
    /\ db0[Worker]["A"].exists /\ ~db0[Worker]["A"].is_deleted
    /\ db["A"].exists /\ db["A"].is_deleted
    /\ db["A"].title = "s"
    /\ db["A"].updated_at > db0[Worker]["A"].updated_at

\* ---------------------------------------------------------------------- C19
\* C19 (Spec): no step of any run, and no sequence of runs, takes a record away
\* or lowers its updated_at: in the store, and in the record as the run sees it
\* from one item of the batch to the next.
C19_UpdatedAtMovesForward ==
    [][/\ \A id \in TaskIds :
            db[id].exists => db'[id].exists /\ db'[id].updated_at >= db[id].updated_at
       /\ \A t \in Threads :
            (LoopStep(t) /\ Seen(t).exists) =>
                SeenAfter(t).exists /\ SeenAfter(t).updated_at >= Seen(t).updated_at
      ]_vars

\* a run of two updates has committed and moved the record's updated_at forward
C19_Witness ==
    /\ Committed(Worker)
    /\ Len(batch[Worker]) = 2
    /\ batch[Worker][1].operation = "update" /\ batch[Worker][2].operation = "update"
    /\ db0[Worker]["A"].exists
    /\ db["A"].updated_at > db0[Worker]["A"].updated_at
    /\ Len(conflicts[Worker]) = 1

\* ---------------------------------------------------------------------- C20
\* C20 (Spec): when the loop of a run is over, every item of the batch whose
\* operation is none of create, update, delete is in the failed list, is still
\* queued, has a retry_count one above the one it had when the run began, and
\* has left the run's session without a change to write.
C20_UnknownOperationFails ==
    \A t \in Threads : \A i \in DOMAIN batch[t] :
        (pc[t] = "commit" /\ batch[t][i].operation \notin KnownOps) =>
            /\ \E k \in DOMAIN failed[t] : failed[t][k].item.oid = batch[t][i].oid
            /\ ~Resolved(t, batch[t][i])
            /\ \E j \in DOMAIN queue :
                    /\ queue[j].oid = batch[t][i].oid
                    /\ queue[j].retry_count = q0[t][i].retry_count + 1
            /\ Len(batch[t]) = 1 => Flush(sess[t], pend[t], db) = db


\* ---------------------------------------------------------------------- C21
\* C21 (SpecParse): an exception raised while one item is handled never leaves
\* the run: no run ends by raising, and when the loop of a run is over every
\* item of the batch whose timestamp could not be parsed is in the failed list
\* with its retry_count one above the one it had, and is still queued.
C21_ItemFailureDoesNotAbort ==
    \A t \in Threads :
        /\ pc[t] # "raised"
        /\ \A i \in DOMAIN batch[t] :
            (pc[t] = "commit" /\ ClientUpdatedAt(batch[t][i]) = BadTs) =>
                /\ \E k \in DOMAIN failed[t] : failed[t][k].item.oid = batch[t][i].oid
                /\ \E j \in DOMAIN queue :
                        /\ queue[j].oid = batch[t][i].oid
                        /\ queue[j].retry_count = q0[t][i].retry_count + 1


\* ---------------------------------------------------------------------- C22
\* C22 (Spec): when the loop of a run is over a batch of two items for the same
\* task id whose first item created the record, the second item found the
\* record: the session holds at most one object to insert for that id, and its
\* flush does not fail.
C22_SecondItemSeesFirst ==
    \A t \in Threads :
        ( /\ pc[t] = "commit"
          /\ Len(batch[t]) = 2
          /\ batch[t][1].task_id = batch[t][2].task_id
          /\ batch[t][1].operation \in {"create", "update"}
          /\ ~db0[t][batch[t][1].task_id].exists )
        => /\ Cardinality({i \in DOMAIN pend[t] : pend[t][i].id = batch[t][1].task_id}) <= 1
           /\ FlushOK(sess[t], pend[t], db)


\* ---------------------------------------------------------------------- C23
\* C23 (Spec): every run moves the queue towards empty: whenever the queue a run
\* peeked holds an item with a known operation, the batch it handles holds an
\* item the run resolves (one with a known operation, or a stale one).  (A
\* failed item never leaves the queue, so a batch made of failed items only is
\* peeked again, unchanged, by every later run, and the items behind it are
\* never handled.)
C23_EveryRunDrains ==
    \A t \in Threads :
        (pc[t] = "loop" /\ \E i \in DOMAIN q0[t] : q0[t][i].operation \in KnownOps)
            => \E j \in DOMAIN batch[t] :
                    \/ batch[t][j].operation \in KnownOps
                    \/ IsConflict(db0[t][batch[t][j].task_id], ClientUpdatedAt(batch[t][j]))


C25_OfflineQueuedOnce ==
    \A t \in Threads :
        LET c == call[t]
            row == db[c.task_id]
        IN  /\ (c.fn # "none" /\ pc[t] = "done") =>
                IF c.offline
                THEN /\ Len(queue) = c.size + 1
                     /\ queue[Len(queue)].task_id = c.task_id
                     /\ queue[Len(queue)].operation = c.fn
                     /\ queue[Len(queue)].data.updated_at = row.updated_at
                     /\ row.sync_status = "pending"
                ELSE /\ Len(queue) = c.size
                     /\ row.sync_status = "synced"
            /\ (c.fn # "none" /\ pc[t] # "done") => ENABLED ServiceStep(t)


\* ---------------------------------------------------------------------- C26
\* C26 (Spec): a run whose commit succeeded on a batch that is not empty goes on
\* to return its summary (the counts of the batch, and the size of the queue
\* after the removal); the run on an empty queue returns zero synced, zero
\* failed and no conflict, and the queue and the store are as before.
C26_SummaryAccounting ==
    \A t \in Threads :
        /\ (Committed(t) /\ batch[t] # <<>> /\ ~result[t].returned) => ENABLED RunStep(t)
        /\ (result[t].returned /\ ~result[t].error) =>
            /\ result[t].synced_items + result[t].failed_items = Len(batch[t])
            /\ Len(result[t].conflicts) <= result[t].synced_items
            /\ result[t].remaining = Len(queue)
            /\ batch[t] = <<>> =>
                /\ result[t].synced_items = 0 /\ result[t].failed_items = 0
                /\ result[t].conflicts = <<>>
                /\ queue = q0[t] /\ db = db0[t]


\* ---------------------------------------------------------------------- C27
\* C27 (SpecFault): when a run has returned, whether its commit succeeded or
\* failed, the items the queue file holds are the items of the queue in memory,
\* retry_count included: a LocalQueue constructed on the file would hold the
\* same items.
C27_FileMatchesMemory ==
    \A t \in Threads : result[t].returned => Dump(Load(file)) = Dump(queue)


\* ---------------------------------------------------------------------- C28
\* C28 (Spec): a row that is soft-deleted stays soft-deleted: no step of a run
\* or of a restart takes a row with is_deleted set out of the table or clears
\* the flag, and no item of a batch, whatever its operation and timestamp,
\* clears the flag on the record the run's session holds.
C28_NoResurrection ==
    [][/\ \A id \in TaskIds :
            (db[id].exists /\ db[id].is_deleted) => (db'[id].exists /\ db'[id].is_deleted)
       /\ \A t \in Threads :
            (LoopStep(t) /\ Seen(t).exists /\ Seen(t).is_deleted) =>
                (SeenAfter(t).exists /\ SeenAfter(t).is_deleted)
      ]_vars

\* a run has committed a create or an update on a soft-deleted row: the title
\* and updated_at are the item's, and the row is still deleted
C28_Witness ==
    /\ Committed(Worker)
    /\ db0[Worker]["A"].exists /\ db0[Worker]["A"].is_deleted
    /\ Len(batch[Worker]) = 1
    /\ batch[Worker][1].operation \in {"create", "update"}
    /\ db["A"].title = "x" /\ db0[Worker]["A"].title # "x"
    /\ db["A"].updated_at > db0[Worker]["A"].updated_at
    /\ db["A"].is_deleted


\* ---------------------------------------------------------------------- C29
\* C29 (SpecOverlap): of two runs under way at the same time neither makes the
\* other's commit fail: when the loop of a run is over, a flush that would go
\* through on the table as the run found it goes through on the table as it is.
C29_OverlapHarmless ==
    \A t \in Threads :
        (pc[t] = "commit" /\ FlushOK(sess[t], pend[t], db0[t])) => FlushOK(sess[t], pend[t], db)

====
